---- MODULE Spec2Model ----
(***************************************************************************)
(* The orchestrator of the social-media content generator (App component): *)
(* text generation, the parallel per-platform image batch, single-image    *)
(* regeneration, and the error-classification / key-selection policy.      *)
(* Every action is one run-to-completion slice of a handler between two    *)
(* suspension points (the awaited network and key-selection calls).        *)
(***************************************************************************)
EXTENDS Integers, Sequences, FiniteSets, TLC

\* ----------------------------------------------------------------- bounds
\* generate() invocations that pass the input guard
MaxCycles == 2
\* regenerateImage() invocations
MaxRegens == 1
\* pending key-selection calls opened from the lock screen
MaxSelectKey == 1
\* length of the idea text
MaxIdeaLen == 1
\* image tasks still outstanding when generate() is invoked again
MaxStale == 1
\* changes of the image settings
MaxSettingChanges == 1
\* length of the text typed into the hashtag field
MaxInputLen == 2
\* hashtags on the Instagram card
MaxTags == 3

\* -------------------------------------------------------------- constants
Platforms == {"LINKEDIN", "TWITTER", "INSTAGRAM", "FACEBOOK"}

\* results === null: a mapping without entries.
Null == <<>>
\* imageUrl absent from a post.
NoImage == [cycle |-> 0, platform |-> "undefined", n |-> 0]
\* hashtags absent from a post (every platform but Instagram).
NoHashtags == <<>>

Chars == {" ", "a"}

Ideas == UNION {[1..n -> Chars] : n \in 0..MaxIdeaLen}

\* ------------------------------------------------------------ String.trim
RECURSIVE TrimStart(_)
TrimStart(s) ==
    IF s # <<>> /\ Head(s) = " " THEN TrimStart(Tail(s)) ELSE s

RECURSIVE TrimEnd(_)
TrimEnd(s) ==
    IF s # <<>> /\ s[Len(s)] = " " THEN TrimEnd(SubSeq(s, 1, Len(s) - 1)) ELSE s

\* Mutant: the guard tests the raw text, `!idea`.
NoTrim(s) == s

Trim(s) == TrimEnd(TrimStart(s))

\* ------------------------------------------------------ error classification
\* Values a rejected provider call can carry.  A message is a sequence of
\* tokens; `nested` tells whether the value has a nested payload (`json`, its
\* serialisation) and whether serialising it throws.
Err(kind, message, nested, json) ==
    [kind |-> kind, message |-> message, nested |-> nested, json |-> json]

Errors ==
    { Err("string", <<"403">>, "none", <<>>),
      Err("string", <<"network", "down">>, "none", <<>>),
      Err("Error", <<"API Key not found">>, "none", <<>>),
      Err("Error", <<"No image data found in response">>, "none", <<>>),
      Err("Error", <<"Requested entity was not found">>, "none", <<>>),
      Err("Error", <<"request", "failed">>, "json", <<"status", "PERMISSION_DENIED">>),
      Err("Error", <<"quota", "exceeded">>, "circular", <<>>),
      Err("object", <<>>, "json", <<"status", "403", "message", "PERMISSION_DENIED">>),
      Err("object", <<>>, "json", <<"The caller does not have permission">>),
      Err("object", <<>>, "json", <<"code", "500">>),
      Err("object", <<>>, "circular", <<>>) }

\* handleApiError, lines 57-74
ErrorMessage(error) ==
    CASE error.kind = "string" -> error.message
      [] error.kind = "Error" ->
            IF error.nested = "json"
            THEN error.message \o <<" ">> \o error.json
            ELSE error.message
      [] OTHER ->
            IF error.nested = "circular"
            THEN <<"Unknown error">>
            ELSE error.json

Includes(msg, needle) == \E i \in 1..Len(msg) : msg[i] = needle

\* Mutant: a missing key is classified like a rejected one.
IsPermissionErrorOrNoKey(error) ==
    LET errorMessage == ErrorMessage(error) IN
    \/ Includes(errorMessage, "403")
    \/ Includes(errorMessage, "PERMISSION_DENIED")
    \/ Includes(errorMessage, "The caller does not have permission")
    \/ Includes(errorMessage, "Requested entity was not found")
    \/ Includes(errorMessage, "API Key not found")

\* lines 77-81
IsPermissionError(error) ==
    LET errorMessage == ErrorMessage(error) IN
    \/ Includes(errorMessage, "403")
    \/ Includes(errorMessage, "PERMISSION_DENIED")
    \/ Includes(errorMessage, "The caller does not have permission")
    \/ Includes(errorMessage, "Requested entity was not found")

\* ------------------------------------------- image settings (types.ts 27-33)
AspectRatios == {"1:1", "2:3", "3:2", "3:4", "4:3", "9:16", "16:9", "21:9"}

\* The values of the aspect-ratio select, lines 318-321.
AspectRatioSettings == {"AUTO"} \cup AspectRatios

ImageSizes == {"1K", "2K", "4K"}

\* { aspectRatio, size: imageSize }, lines 162-165 and 209
Config(ratio, size) == [aspectRatio |-> ratio, size |-> size]

Configs == {Config(r, z) : r \in AspectRatioSettings, z \in ImageSizes}

\* No generateImageForPlatform call has been made yet.
NoConfig == Config("none", "none")

\* useState defaults, lines 14-15
DefaultConfig == Config("AUTO", "1K")

\* --------------------------- generateImageForPlatform (geminiService 96-133)
\* Mutant: "automatic" resolves to one ratio for every platform.
ResolveRatioSquare(ratio, platform) ==
    IF ratio = "AUTO" THEN "1:1" ELSE ratio

\* lines 96-115
ResolveRatio(ratio, platform) ==
    IF ratio = "AUTO"
    THEN CASE platform = "LINKEDIN" -> "16:9"
           [] platform = "TWITTER" -> "16:9"
           [] platform = "INSTAGRAM" -> "1:1"
           [] platform = "FACEBOOK" -> "4:3"
           [] OTHER -> "1:1"
    ELSE ratio

\* lines 121-131: the keys of safeRatioMap and their values.
SafeRatioKeys == {"1:1", "3:4", "4:3", "9:16", "16:9", "2:3", "3:2", "21:9"}

safeRatioMap ==
    [k \in SafeRatioKeys |->
        CASE k = "2:3" -> "3:4"
          [] k = "3:2" -> "4:3"
          [] k = "21:9" -> "16:9"
          [] OTHER -> k]

\* line 133: safeRatioMap[ratio] || '1:1'
ApiRatio(ratio) ==
    IF ratio \in SafeRatioKeys THEN safeRatioMap[ratio] ELSE "1:1"

\* lines 141-146: the imageConfig of the provider request.
ImageConfigOf(platform, config) ==
    [aspectRatio |-> ApiRatio(ResolveRatio(config.aspectRatio, platform)),
     imageSize |-> config.size]

\* No provider request has been built.
NoImageConfig == [aspectRatio |-> "none", imageSize |-> "none"]

\* The arguments of a generateImageForPlatform call.
ServiceCall(platform, config) == [platform |-> platform, config |-> config]

ServiceCalls == {ServiceCall(p, c) : p \in Platforms, c \in Configs}

\* -------------------------------------- hashtag editing (PostCard 17-40)
TagChars == {" ", "#", "a", "A"}

HashtagInputs == UNION {[1..n -> TagChars] : n \in 0..MaxInputLen}

\* Mutant: tags are compared as written.
KeepCase(s) == s

\* String.toLowerCase
ToLowerCase(s) == [i \in 1..Len(s) |-> IF s[i] = "A" THEN "a" ELSE s[i]]

\* String.startsWith('#')
StartsWithHash(s) == s # <<>> /\ Head(s) = "#"

\* lines 20 and 29: t.startsWith('#') ? t : `#${t}`
WithHash(t) == IF StartsWithHash(t) THEN t ELSE <<"#">> \o t

\* line 32: editableHashtags.some(t => t.toLowerCase() === tag.toLowerCase())
SomeEqualIgnoringCase(tags, tag) ==
    \E i \in 1..Len(tags) : ToLowerCase(tags[i]) = ToLowerCase(tag)

\* addHashtag, lines 27-34: the list after adding `input`.
AddedHashtags(tags, input) ==
    IF Trim(input) = <<>>
    THEN tags
    ELSE LET tag == WithHash(Trim(input)) IN
         IF ~SomeEqualIgnoringCase(tags, tag)
         THEN tags \o <<tag>>
         ELSE tags

\* removeHashtag, line 39: filter((_, index) => index !== indexToRemove),
\* `index` being the position (from 0) of the head of `tags`.
RECURSIVE FilterOtherIndexes(_, _, _)
FilterOtherIndexes(tags, indexToRemove, index) ==
    IF tags = <<>>
    THEN <<>>
    ELSE (IF index # indexToRemove THEN <<Head(tags)>> ELSE <<>>)
         \o FilterOtherIndexes(Tail(tags), indexToRemove, index + 1)

\* The hashtags a generated Instagram post can carry (post.hashtags).
RawTags == {<<"a">>, <<"A">>, <<"#", "a">>}

PostHashtags == UNION {[1..n -> RawTags] : n \in 0..2}

\* useEffect, lines 17-24, for the Instagram card.
SyncedHashtags(hashtags) == [i \in 1..Len(hashtags) |-> WithHash(hashtags[i])]

\* ------------------------------------------------------------------ state
VARIABLES
    aistudio,            \* window.aistudio is present
    hasKey,
    idea,
    isGeneratingText,
    results,             \* Null or [Platforms -> post]
    permissionErrorRef,
    gen,                 \* number of text generations started
    regens,              \* number of image regenerations started
    textTask,            \* handleGenerate: "idle" | "inflight" | "awaitKey"
    imgTasks,            \* image tasks suspended at a network or key call
    selectKeyCalls,      \* openSelectKey calls pending in handleSelectKey
    batch,               \* the Promise.all of the live cycle's generateAllImages
    billingAlerts,       \* billing alerts shown since the last generate/regenerate
    textError,           \* how the live cycle's text call failed, if it did
    genericAlerts,       \* generic "text generation failed" alerts of the live cycle
    foreignWrite,        \* history: a request outside the live batch wrote the live ResultSet
    aspectRatio,
    imageSize,
    settingChanges,      \* number of changes made in the settings panel
    closure,             \* the settings the running handleGenerate closed over
    sentConfig,          \* config argument of the latest generateImageForPlatform call
    serviceCall,         \* generateImageForPlatform: the arguments of the call under study
    imageConfig,         \* generateImageForPlatform: the imageConfig it sends
    editableHashtags,    \* PostCard (Instagram)
    hashtagInput         \* PostCard (Instagram)

\* The image settings and what the handlers did with them.
configVars == <<aspectRatio, imageSize, settingChanges, closure, sentConfig>>

serviceVars == <<serviceCall, imageConfig>>

cardVars == <<editableHashtags, hashtagInput>>

\* The orchestrator's own state.
appVars == <<aistudio, hasKey, idea, isGeneratingText, results,
             permissionErrorRef, gen, regens, textTask, imgTasks,
             selectKeyCalls, batch, billingAlerts, textError, genericAlerts,
             foreignWrite>>

vars == <<aistudio, hasKey, idea, isGeneratingText, results,
          permissionErrorRef, gen, regens, textTask, imgTasks, selectKeyCalls,
          batch, billingAlerts, textError, genericAlerts, foreignWrite,
          configVars, serviceVars, cardVars>>

NoBatch == [cycle |-> 0, pending |-> 0, settled |-> FALSE,
            outcome |-> [p \in Platforms |-> "none"]]

\* The settings on mount, lines 14-15.
ConfigInit ==
    /\ aspectRatio = DefaultConfig.aspectRatio
    /\ imageSize = DefaultConfig.size
    /\ settingChanges = 0
    /\ closure = DefaultConfig
    /\ sentConfig = NoConfig

\* No generateImageForPlatform call is under study.
ServiceIdle ==
    /\ serviceCall = ServiceCall("LINKEDIN", DefaultConfig)
    /\ imageConfig = NoImageConfig

\* PostCard on mount, lines 13-14.
CardInit ==
    /\ editableHashtags = <<>>
    /\ hashtagInput = <<>>

\* The state once the start-up key check (useEffect checkKey, lines 26-38) has
\* run: hasKey is what hasSelectedApiKey() or process.env.API_KEY gave.
AppInit ==
    /\ aistudio \in BOOLEAN
    /\ hasKey \in BOOLEAN
    /\ idea \in Ideas
    /\ isGeneratingText = FALSE
    /\ results = Null
    /\ permissionErrorRef = FALSE
    /\ gen = 0
    /\ regens = 0
    /\ textTask = "idle"
    /\ imgTasks = {}
    /\ selectKeyCalls = 0
    /\ batch = NoBatch
    /\ billingAlerts = 0
    /\ textError = "none"
    /\ genericAlerts = 0
    /\ foreignWrite = FALSE

Init == AppInit /\ ConfigInit /\ ServiceIdle /\ CardInit

\* --------------------------------------------------- ResultSet updates
\* handleGenerate, lines 116-121: one post per platform from the c-th draft.
NewResults(c) ==
    [p \in Platforms |->
        [platform |-> p, text |-> c, imagePrompt |-> c,
         hashtags |-> IF p = "INSTAGRAM" THEN <<c>> ELSE NoHashtags,
         imageUrl |-> NoImage, imageLoading |-> FALSE]]

\* generateAllImages, lines 143-148
SetAllLoading(prev) ==
    IF prev = Null THEN Null
    ELSE [p \in Platforms |-> [prev[p] EXCEPT !.imageLoading = TRUE]]

\* Mutant: regeneration marks every platform loading.
MarkLoadingAll(prev, platform) == SetAllLoading(prev)

\* handleRegenerateImage, lines 197-203
MarkLoading(prev, platform) ==
    IF prev = Null THEN Null
    ELSE [prev EXCEPT ![platform].imageLoading = TRUE]

\* Mutant: the update is built from the snapshot the batch was started with,
\* not from the latest state.
ClearLoadingFromSnapshot(prev, platform) ==
    IF prev = Null THEN Null
    ELSE [SetAllLoading(NewResults(gen)) EXCEPT ![platform].imageLoading = FALSE]

\* Mutant: a failure also drops the stored image.
ClearLoadingDropImage(prev, platform) ==
    IF prev = Null THEN Null
    ELSE [prev EXCEPT ![platform].imageUrl = NoImage,
                      ![platform].imageLoading = FALSE]

\* lines 153-156, 180-186, 221-227
ClearLoading(prev, platform) ==
    IF prev = Null THEN Null
    ELSE [prev EXCEPT ![platform].imageLoading = FALSE]

\* Mutant: the image is stored into the ResultSet the batch was started with,
\* not into the latest state.
StoreImageFromSnapshot(prev, platform, imageUrl) ==
    IF prev = Null THEN Null
    ELSE [SetAllLoading(NewResults(gen)) EXCEPT ![platform].imageUrl = imageUrl,
                                                 ![platform].imageLoading = FALSE]

\* lines 167-173, 212-218
StoreImage(prev, platform, imageUrl) ==
    IF prev = Null THEN Null
    ELSE [prev EXCEPT ![platform].imageUrl = imageUrl,
                      ![platform].imageLoading = FALSE]

\* The data URI a fulfilled image request returns: one per request.
ImageUrlOf(t) == [cycle |-> t.cycle, platform |-> t.platform, n |-> t.n]

\* ------------------------------------------------------ image tasks
\* n = 0: a task of generateAllImages; n > 0: the n-th handleRegenerateImage.
Task(c, p, n, phase) == [cycle |-> c, platform |-> p, n |-> n, phase |-> phase]

IsBatchTask(t) == t.n = 0

\* The task belongs to the Promise.all that `batch` tracks.
InLiveBatch(t) == IsBatchTask(t) /\ batch.cycle = t.cycle /\ batch.cycle # 0

\* Promise.all, line 190: fulfilled when no member promise is pending.
AllSettled(pending) == pending = 0

\* One member promise of the live batch settles with `outcome`.
BatchAfter(t, outcome) ==
    IF InLiveBatch(t)
    THEN [batch EXCEPT !.pending = @ - 1,
                       !.outcome[t.platform] = outcome,
                       !.settled = AllSettled(batch.pending - 1)]
    ELSE batch

\* History: a write into the live ResultSet by a request that is not one of
\* the live batch's own.
ForeignAfter(t) == foreignWrite \/ (results # Null /\ ~InLiveBatch(t))

\* Mutant: the flag is not rechecked before the call.
ShouldSkipNever(flag) == FALSE

\* generateAllImages, line 152: the task declines to call.
ShouldSkip(flag) == flag

\* ------------------------------------------------- key selection policy
\* The classifications the provider's errors can get, lines 77-81.
ErrorClasses == {IsPermissionError(error) : error \in Errors}

\* handleApiError, lines 83-84: the lock path runs.
LockPathRuns(isPermissionError) == isPermissionError /\ ~permissionErrorRef

\* Mutant: the application is locked without the flag being set.
LockAppNoFlag ==
    /\ UNCHANGED permissionErrorRef
    /\ hasKey' = FALSE
    /\ billingAlerts' = billingAlerts + 1

\* Mutant: the flag is set without the application being locked.
LockAppKeepsKey ==
    /\ permissionErrorRef' = TRUE
    /\ UNCHANGED hasKey
    /\ billingAlerts' = billingAlerts + 1

\* handleApiError, lines 85-89
LockApp ==
    /\ permissionErrorRef' = TRUE
    /\ hasKey' = FALSE
    /\ billingAlerts' = billingAlerts + 1

\* Mutant: a successful key selection leaves the flag set.
KeySelectedKeepsFlag ==
    /\ hasKey' = TRUE
    /\ UNCHANGED permissionErrorRef

\* lines 45-46 and 95-96
KeySelected ==
    /\ hasKey' = TRUE
    /\ permissionErrorRef' = FALSE

\* handleGenerate, lines 131-133, given the flag read after handleApiError
GenericAlertShown(flag) == ~flag

\* ------------------------------------------------ lock screen, lines 40-51
HandleSelectKey ==
    /\ ~hasKey
    /\ aistudio
    /\ selectKeyCalls < MaxSelectKey
    /\ selectKeyCalls' = selectKeyCalls + 1
    /\ UNCHANGED <<aistudio, hasKey, idea, isGeneratingText, results,
                   permissionErrorRef, gen, regens, textTask, imgTasks, batch,
                   billingAlerts, textError, genericAlerts, foreignWrite>>
    /\ UNCHANGED <<configVars, serviceVars, cardVars>>

SelectKeyResolve ==
    /\ selectKeyCalls > 0
    /\ selectKeyCalls' = selectKeyCalls - 1
    /\ KeySelected
    /\ UNCHANGED <<aistudio, idea, isGeneratingText, results, gen,
                   regens, textTask, imgTasks, batch, billingAlerts, textError,
                   genericAlerts, foreignWrite>>
    /\ UNCHANGED <<configVars, serviceVars, cardVars>>

SelectKeyReject ==
    /\ selectKeyCalls > 0
    /\ selectKeyCalls' = selectKeyCalls - 1
    /\ UNCHANGED <<aistudio, hasKey, idea, isGeneratingText, results,
                   permissionErrorRef, gen, regens, textTask, imgTasks, batch,
                   billingAlerts, textError, genericAlerts, foreignWrite>>
    /\ UNCHANGED <<configVars, serviceVars, cardVars>>

\* ------------------------------------------------- idea entry, line 337
SetIdea ==
    /\ hasKey
    /\ \E i \in Ideas : i # idea /\ idea' = i
    /\ UNCHANGED <<aistudio, hasKey, isGeneratingText, results,
                   permissionErrorRef, gen, regens, textTask, imgTasks,
                   selectKeyCalls, batch, billingAlerts, textError,
                   genericAlerts, foreignWrite>>
    /\ UNCHANGED <<configVars, serviceVars, cardVars>>

\* ------------------------------------------- handleGenerate, lines 107-114
\* The button is rendered with the main view (line 231) and disabled while a
\* text generation runs (line 364); the blank-idea test is the handler's own.
HandleGenerate ==
    /\ hasKey
    /\ ~isGeneratingText
    /\ gen < MaxCycles
    /\ Cardinality(imgTasks) <= MaxStale
    /\ IF Trim(idea) = <<>>
       THEN UNCHANGED vars
       ELSE /\ isGeneratingText' = TRUE
            /\ results' = Null
            /\ permissionErrorRef' = FALSE
            /\ gen' = gen + 1
            /\ textTask' = "inflight"
            /\ batch' = NoBatch
            /\ billingAlerts' = 0
            /\ textError' = "none"
            /\ genericAlerts' = 0
            /\ foreignWrite' = FALSE
            /\ closure' = Config(aspectRatio, imageSize)
            /\ UNCHANGED <<aistudio, hasKey, idea, regens, imgTasks,
                           selectKeyCalls, aspectRatio, imageSize,
                           settingChanges, sentConfig, serviceVars, cardVars>>

\* handleGenerate, lines 114-127 and 135, with generateAllImages up to its
\* first suspension point (lines 139-165, 190).
TextSucceed ==
    /\ textTask = "inflight"
    /\ LET newResults == NewResults(gen)
           skipped == {p \in Platforms : ShouldSkip(permissionErrorRef)}
           called == Platforms \ skipped
           loading == SetAllLoading(newResults)
       IN /\ results' = [p \in Platforms |->
                            IF p \in skipped
                            THEN ClearLoading(loading, p)[p]
                            ELSE loading[p]]
          /\ imgTasks' = imgTasks \cup {Task(gen, p, 0, "inflight") : p \in called}
          /\ batch' = [cycle |-> gen,
                       pending |-> Cardinality(called),
                       settled |-> AllSettled(Cardinality(called)),
                       outcome |-> [p \in Platforms |->
                                      IF p \in skipped THEN "skipped" ELSE "pending"]]
          /\ sentConfig' = IF called = {} THEN sentConfig ELSE closure
    /\ isGeneratingText' = FALSE
    /\ textTask' = "idle"
    /\ foreignWrite' = FALSE
    /\ UNCHANGED <<aistudio, hasKey, idea, permissionErrorRef, gen,
                   regens, selectKeyCalls, billingAlerts, textError, genericAlerts>>
    /\ UNCHANGED <<aspectRatio, imageSize, settingChanges, closure,
                   serviceVars, cardVars>>

\* Mutant: the progress flag is cleared on the success path only.
FinishTextFailureNoFinally ==
    /\ genericAlerts' = genericAlerts
                        + (IF GenericAlertShown(permissionErrorRef') THEN 1 ELSE 0)
    /\ UNCHANGED isGeneratingText
    /\ textTask' = "idle"

\* handleGenerate, lines 129-136: the rest of the handler once handleApiError
\* has returned.
FinishTextFailure ==
    /\ genericAlerts' = genericAlerts
                        + (IF GenericAlertShown(permissionErrorRef') THEN 1 ELSE 0)
    /\ isGeneratingText' = FALSE
    /\ textTask' = "idle"

\* handleGenerate, lines 129-130: the text call rejected, with handleApiError
\* up to its suspension point, given the classification of the error.
TextFailAs(isPermissionError) ==
    /\ textTask = "inflight"
    /\ textError' = IF isPermissionError THEN "fatal" ELSE "other"
    /\ IF LockPathRuns(isPermissionError)
       THEN /\ LockApp
            /\ IF aistudio
               THEN /\ textTask' = "awaitKey"
                    /\ UNCHANGED <<isGeneratingText, genericAlerts>>
               ELSE FinishTextFailure
       ELSE /\ UNCHANGED <<permissionErrorRef, hasKey, billingAlerts>>
            /\ FinishTextFailure
    /\ UNCHANGED <<aistudio, idea, results, gen, regens, imgTasks,
                   selectKeyCalls, batch, foreignWrite>>
    /\ UNCHANGED <<configVars, serviceVars, cardVars>>

TextFail == \E isPermissionError \in ErrorClasses : TextFailAs(isPermissionError)

\* The text call rejected with `error`.
TextFailWith(error) == TextFailAs(IsPermissionError(error))

\* handleApiError, lines 94-96, resumed inside handleGenerate
TextKeyResolve ==
    /\ textTask = "awaitKey"
    /\ KeySelected
    /\ FinishTextFailure
    /\ UNCHANGED <<aistudio, idea, results, gen, regens, imgTasks,
                   selectKeyCalls, batch, billingAlerts, textError, foreignWrite>>
    /\ UNCHANGED <<configVars, serviceVars, cardVars>>

\* handleApiError, lines 97-99, resumed inside handleGenerate
TextKeyReject ==
    /\ textTask = "awaitKey"
    /\ UNCHANGED <<permissionErrorRef, hasKey>>
    /\ FinishTextFailure
    /\ UNCHANGED <<aistudio, idea, results, gen, regens, imgTasks,
                   selectKeyCalls, batch, billingAlerts, textError, foreignWrite>>
    /\ UNCHANGED <<configVars, serviceVars, cardVars>>

\* --------------------------------------- image tasks, lines 161-187, 205-228
ImageSucceed(t) ==
    /\ t \in imgTasks
    /\ t.phase = "inflight"
    /\ results' = StoreImage(results, t.platform, ImageUrlOf(t))
    /\ imgTasks' = imgTasks \ {t}
    /\ batch' = BatchAfter(t, "ok")
    /\ foreignWrite' = ForeignAfter(t)
    /\ UNCHANGED <<aistudio, hasKey, idea, isGeneratingText,
                   permissionErrorRef, gen, regens, textTask, selectKeyCalls,
                   billingAlerts, textError, genericAlerts>>
    /\ UNCHANGED <<configVars, serviceVars, cardVars>>

\* Mutant: a failed task ends without its last update.
FinishImageFailureKeepsLoading(t, outcome) ==
    /\ UNCHANGED results
    /\ imgTasks' = imgTasks \ {t}
    /\ batch' = BatchAfter(t, outcome)
    /\ foreignWrite' = ForeignAfter(t)

\* lines 180-186 and 221-227: the task's last step after a failure.
FinishImageFailure(t, outcome) ==
    /\ results' = ClearLoading(results, t.platform)
    /\ imgTasks' = imgTasks \ {t}
    /\ batch' = BatchAfter(t, outcome)
    /\ foreignWrite' = ForeignAfter(t)

\* lines 174-178 and 219-220: the image call rejected, with handleApiError up
\* to its suspension point, given the classification of the error.
ImageFailAs(t, isPermissionError) ==
    /\ t \in imgTasks
    /\ t.phase = "inflight"
    /\ IF LockPathRuns(isPermissionError)
       THEN /\ LockApp
            /\ IF aistudio
               THEN /\ imgTasks' = (imgTasks \ {t})
                                   \cup {[t EXCEPT !.phase = "awaitKey"]}
                    /\ UNCHANGED <<results, batch, foreignWrite>>
               ELSE FinishImageFailure(t, "error")
       ELSE /\ UNCHANGED <<permissionErrorRef, hasKey, billingAlerts>>
            /\ FinishImageFailure(t, "error")
    /\ UNCHANGED <<aistudio, idea, isGeneratingText, gen, regens,
                   textTask, selectKeyCalls, textError, genericAlerts>>
    /\ UNCHANGED <<configVars, serviceVars, cardVars>>

ImageFail(t) == \E isPermissionError \in ErrorClasses : ImageFailAs(t, isPermissionError)

\* The image call of t rejected with `error`.
ImageFailWith(t, error) == ImageFailAs(t, IsPermissionError(error))

\* handleApiError, lines 94-96, resumed inside an image task
ImageKeyResolve(t) ==
    /\ t \in imgTasks
    /\ t.phase = "awaitKey"
    /\ KeySelected
    /\ FinishImageFailure(t, "error")
    /\ UNCHANGED <<aistudio, idea, isGeneratingText, gen, regens,
                   textTask, selectKeyCalls, billingAlerts, textError,
                   genericAlerts>>
    /\ UNCHANGED <<configVars, serviceVars, cardVars>>

\* handleApiError, lines 97-99, resumed inside an image task
ImageKeyReject(t) ==
    /\ t \in imgTasks
    /\ t.phase = "awaitKey"
    /\ FinishImageFailure(t, "error")
    /\ UNCHANGED <<aistudio, hasKey, idea, isGeneratingText,
                   permissionErrorRef, gen, regens, textTask, selectKeyCalls,
                   billingAlerts, textError, genericAlerts>>
    /\ UNCHANGED <<configVars, serviceVars, cardVars>>

\* ------------------------------------ handleRegenerateImage, lines 193-210
\* The card's regenerate buttons are rendered with the ResultSet (line 387)
\* and only while the card shows no spinner (PostCard, lines 219-264).
HandleRegenerateImage(platform) ==
    /\ hasKey
    /\ results # Null
    /\ ~results[platform].imageLoading
    /\ regens < MaxRegens
    /\ regens' = regens + 1
    /\ permissionErrorRef' = FALSE
    /\ results' = MarkLoading(results, platform)
    /\ imgTasks' = imgTasks
                   \cup {Task(results[platform].imagePrompt, platform,
                              regens + 1, "inflight")}
    /\ billingAlerts' = 0
    /\ foreignWrite' = TRUE
    /\ sentConfig' = Config(aspectRatio, imageSize)
    /\ UNCHANGED <<aistudio, hasKey, idea, isGeneratingText, gen,
                   textTask, selectKeyCalls, batch, textError, genericAlerts>>
    /\ UNCHANGED <<aspectRatio, imageSize, settingChanges, closure,
                   serviceVars, cardVars>>

\* ------------------------------------------------------- specification
Next ==
    \/ HandleSelectKey
    \/ SelectKeyResolve
    \/ SelectKeyReject
    \/ HandleGenerate
    \/ TextSucceed
    \/ TextFail
    \/ TextKeyResolve
    \/ TextKeyReject
    \/ \E t \in imgTasks : ImageSucceed(t)
    \/ \E t \in imgTasks : ImageFail(t)
    \/ \E t \in imgTasks : ImageKeyResolve(t)
    \/ \E t \in imgTasks : ImageKeyReject(t)
    \/ \E platform \in Platforms : HandleRegenerateImage(platform)

Spec == Init /\ [][Next]_vars

\* The same, with the idea edited while the application runs and without
\* single-image regeneration.
NextIdea ==
    \/ SetIdea
    \/ HandleSelectKey
    \/ SelectKeyResolve
    \/ SelectKeyReject
    \/ HandleGenerate
    \/ TextSucceed
    \/ TextFail
    \/ TextKeyResolve
    \/ TextKeyReject
    \/ \E t \in imgTasks : ImageSucceed(t)
    \/ \E t \in imgTasks : ImageFail(t)
    \/ \E t \in imgTasks : ImageKeyResolve(t)
    \/ \E t \in imgTasks : ImageKeyReject(t)

SpecIdea == Init /\ [][NextIdea]_vars

\* The application with each rejected call carrying one of the values of
\* Errors.
NextErrors ==
    \/ HandleSelectKey
    \/ SelectKeyResolve
    \/ SelectKeyReject
    \/ HandleGenerate
    \/ TextSucceed
    \/ \E error \in Errors : TextFailWith(error)
    \/ TextKeyResolve
    \/ TextKeyReject
    \/ \E t \in imgTasks : ImageSucceed(t)
    \/ \E t \in imgTasks : \E error \in Errors : ImageFailWith(t, error)
    \/ \E t \in imgTasks : ImageKeyResolve(t)
    \/ \E t \in imgTasks : ImageKeyReject(t)
    \/ \E platform \in Platforms : HandleRegenerateImage(platform)

SpecErrors == Init /\ [][NextErrors]_vars

\* ------------------------------------ settings panel, lines 282-326
\* line 314: onChange of the aspect-ratio select
SetAspectRatio ==
    /\ hasKey
    /\ settingChanges < MaxSettingChanges
    /\ \E ratio \in AspectRatioSettings :
          ratio # aspectRatio /\ aspectRatio' = ratio
    /\ settingChanges' = settingChanges + 1
    /\ UNCHANGED <<appVars, imageSize, closure, sentConfig, serviceVars,
                   cardVars>>

\* line 294: a resolution button
SetImageSize ==
    /\ hasKey
    /\ settingChanges < MaxSettingChanges
    /\ \E size \in ImageSizes : size # imageSize /\ imageSize' = size
    /\ settingChanges' = settingChanges + 1
    /\ UNCHANGED <<appVars, aspectRatio, closure, sentConfig, serviceVars,
                   cardVars>>

\* Generation and regeneration whose calls succeed, with the settings changed
\* while the application runs.
NextSettings ==
    \/ SetAspectRatio
    \/ SetImageSize
    \/ HandleGenerate
    \/ TextSucceed
    \/ \E t \in imgTasks : ImageSucceed(t)
    \/ \E platform \in Platforms : HandleRegenerateImage(platform)

SpecSettings == Init /\ [][NextSettings]_vars

\* ------------------------------ generateImageForPlatform as a function
\* Any call the orchestrator can make: a platform and a value of the settings.
InitRatio ==
    /\ AppInit /\ ConfigInit /\ CardInit
    /\ serviceCall \in ServiceCalls
    /\ imageConfig = NoImageConfig

\* geminiService lines 96-146: the request the call builds.
GenerateImageForPlatform ==
    /\ imageConfig = NoImageConfig
    /\ imageConfig' = ImageConfigOf(serviceCall.platform, serviceCall.config)
    /\ UNCHANGED <<appVars, configVars, serviceCall, cardVars>>

NextRatio == GenerateImageForPlatform

SpecRatio == InitRatio /\ [][NextRatio]_vars

\* --------------------------------------- hashtag editing, PostCard 26-40
\* The Instagram card, rendered with the main view (line 231), once its
\* post's hashtags were synced in.
InitHashtags ==
    /\ AppInit /\ ConfigInit /\ ServiceIdle
    /\ hasKey
    /\ \E hashtags \in PostHashtags : editableHashtags = SyncedHashtags(hashtags)
    /\ hashtagInput = <<>>

\* line 171: onChange of the hashtag field
SetHashtagInput ==
    /\ \E value \in HashtagInputs : value # hashtagInput /\ hashtagInput' = value
    /\ UNCHANGED <<appVars, configVars, serviceVars, editableHashtags>>

\* lines 26-36; Enter (line 172) calls it whatever the button's state is.
AddHashtag ==
    /\ Len(editableHashtags) < MaxTags
    /\ editableHashtags' = AddedHashtags(editableHashtags, hashtagInput)
    /\ hashtagInput' = IF Trim(hashtagInput) = <<>> THEN hashtagInput ELSE <<>>
    /\ UNCHANGED <<appVars, configVars, serviceVars>>

\* lines 38-40, from the button of the tag rendered at `indexToRemove`
RemoveHashtag(indexToRemove) ==
    /\ indexToRemove \in 0..(Len(editableHashtags) - 1)
    /\ editableHashtags' = FilterOtherIndexes(editableHashtags, indexToRemove, 0)
    /\ UNCHANGED <<appVars, configVars, serviceVars, hashtagInput>>

NextHashtags ==
    \/ SetHashtagInput
    \/ AddHashtag
    \/ \E indexToRemove \in 0..(MaxTags - 1) : RemoveHashtag(indexToRemove)

SpecHashtags == InitHashtags /\ [][NextHashtags]_vars

\* ------------------------------------------------------------ claims
\* A step in which image task t settles or resumes.
TaskStep(t) ==
    ImageSucceed(t) \/ ImageFail(t) \/ ImageKeyResolve(t) \/ ImageKeyReject(t)

\* The task was issued against a ResultSet that a newer generate() replaced.
Superseded(t) == t.cycle # gen

\* C1: no image task mutates a PlatformResult of a ResultSet that has
\* superseded its own: a step of a request of an earlier cycle changes neither
\* the image reference nor the image-loading flag of any platform.
C1_NoStaleWrite ==
    [][\A t \in imgTasks :
          (Superseded(t) /\ TaskStep(t)) =>
              \A p \in Platforms :
                  results # Null =>
                      /\ results'[p].imageUrl = results[p].imageUrl
                      /\ results'[p].imageLoading = results[p].imageLoading]_vars

\* C2: within one generation cycle the fatal-authorization path (lock and
\* billing alert) fires at most once.
C2_OneAlertPerCycle == billingAlerts <= 1

\* The network calls that are or were issued and have not yet finished.
IssuedCalls == {ImageUrlOf(t) : t \in imgTasks}

\* C3: while the FatalAuthFlag is set no step issues an image call, a batch
\* started then only clears every platform's image-loading flag, and a call
\* already in flight still completes into its own platform's entry.
C3_ShortCircuit ==
    [][permissionErrorRef =>
          /\ IssuedCalls' \subseteq IssuedCalls
          /\ TextSucceed =>
                \A p \in Platforms :
                    /\ ~results'[p].imageLoading
                    /\ results'[p].imageUrl = NoImage
          /\ \A t \in imgTasks :
                (results # Null /\ TaskStep(t) /\ t \notin imgTasks') =>
                    /\ ~results'[t.platform].imageLoading
                    /\ ImageSucceed(t) =>
                          results'[t.platform].imageUrl = ImageUrlOf(t)]_vars

\* A batch was started while the flag was set: every task declined to call.
C3_Witness ==
    /\ permissionErrorRef
    /\ results # Null
    /\ batch.cycle = gen
    /\ \A p \in Platforms : batch.outcome[p] = "skipped"

\* The live batch settled with platform P failed and the other three fulfilled.
OneFailed(P) ==
    /\ batch.cycle = gen
    /\ batch.settled
    /\ batch.outcome[P] = "error"
    /\ \A q \in Platforms \ {P} : batch.outcome[q] = "ok"

\* C4: the batch settles only after all four tasks settled; and when it
\* settled with P failed and the other three fulfilled (no request outside
\* the batch having written the ResultSet), P has image-loading false and no
\* image reference, the others have their own image and image-loading false,
\* and all four text drafts are retained.
C4_PartialFailure ==
    /\ batch.settled => \A p \in Platforms : batch.outcome[p] # "pending"
    /\ \A P \in Platforms :
          (OneFailed(P) /\ ~foreignWrite) =>
              /\ results # Null
              /\ ~results[P].imageLoading
              /\ results[P].imageUrl = NoImage
              /\ \A q \in Platforms \ {P} :
                    /\ ~results[q].imageLoading
                    /\ results[q].imageUrl = ImageUrlOf(Task(gen, q, 0, "inflight"))
              /\ \A p \in Platforms :
                    /\ results[p].text = NewResults(gen)[p].text
                    /\ results[p].hashtags = NewResults(gen)[p].hashtags

\* Such a batch, in a cycle without any fatal classification.
C4_Witness ==
    /\ \E P \in Platforms : OneFailed(P)
    /\ ~foreignWrite
    /\ billingAlerts = 0
    /\ ~permissionErrorRef

\* C5: from the population of the ResultSet until the first image call of its
\* cycle resolves, there is one entry per platform and each is loading.
C5_AllLoadingFirst ==
    (results # Null /\ \A p \in Platforms : batch.outcome[p] \notin {"ok", "error"}) =>
        /\ DOMAIN results = Platforms
        /\ \A p \in Platforms : results[p].imageLoading

OnlyWhitespace(s) == \A i \in 1..Len(s) : s[i] = " "

\* C6: generate() with an empty or whitespace-only idea is a no-op: no text
\* call is issued and results, flag, progress flag and hasKey stay as they are.
C6_BlankIdeaNoOp ==
    [][OnlyWhitespace(idea) =>
          /\ HandleGenerate =>
                UNCHANGED <<results, permissionErrorRef, isGeneratingText, hasKey,
                            textTask, imgTasks, gen>>
          /\ ~(textTask = "idle" /\ textTask' = "inflight")
          /\ gen' = gen
          /\ isGeneratingText' => isGeneratingText
          /\ results' = Null => results = Null]_vars

\* generate() can be invoked on a whitespace-only idea over a live ResultSet.
C6_Witness ==
    /\ idea # <<>>
    /\ OnlyWhitespace(idea)
    /\ results # Null
    /\ imgTasks # {}
    /\ ENABLED HandleGenerate

\* Every platform but `platform` keeps its whole entry.
OthersKept(platform) ==
    \A q \in Platforms \ {platform} :
        results # Null => results'[q] = results[q]

\* C7: regenerateImage(P), from its start to the end of its request, changes
\* no entry of a platform other than P.
C7_RegenerateFrame ==
    [][/\ \A p \in Platforms : HandleRegenerateImage(p) => OthersKept(p)
       /\ \A t \in imgTasks :
             (~IsBatchTask(t) /\ TaskStep(t)) => OthersKept(t.platform)]_vars

\* A regenerated image was stored while the live batch was still in flight.
C7_Witness ==
    /\ results # Null
    /\ \E p \in Platforms : results[p].imageUrl.n > 0
    /\ \E t \in imgTasks : InLiveBatch(t) /\ t.phase = "inflight"

AwaitingKey == {t \in imgTasks : t.phase = "awaitKey"}

\* C8: the step that classifies an error fatal sets the flag and locks the
\* application, and only such a step starts the key-selection flow; the flow's
\* success clears the flag and unlocks; its failure, or its absence, leaves
\* the application locked with the flag set.
C8_LockThenKeyFlow ==
    [][/\ billingAlerts' = billingAlerts + 1 =>
             /\ permissionErrorRef' /\ ~hasKey'
             /\ ~aistudio => (AwaitingKey' = AwaitingKey /\ textTask' # "awaitKey")
       /\ (AwaitingKey' \ AwaitingKey # {} \/ (textTask' = "awaitKey" /\ textTask # "awaitKey")) =>
             /\ billingAlerts' = billingAlerts + 1
             /\ permissionErrorRef' /\ ~hasKey'
       /\ (TextKeyResolve \/ \E t \in imgTasks : ImageKeyResolve(t)) =>
             (~permissionErrorRef' /\ hasKey')
       /\ (TextKeyReject \/ \E t \in imgTasks : ImageKeyReject(t)) =>
             (permissionErrorRef' = permissionErrorRef /\ hasKey' = hasKey)]_vars

\* A fatal classification of this cycle was followed by a key selection.
C8_Witness ==
    /\ aistudio
    /\ billingAlerts = 1
    /\ selectKeyCalls = 0
    /\ textError = "fatal"
    /\ textTask = "idle"
    /\ hasKey
    /\ ~permissionErrorRef

\* C9: a failed text generation shows the generic notification if and only if
\* its error is not classified fatal-authorization.
C9_GenericIffNotFatal ==
    (textTask = "idle" /\ textError # "none") =>
        (genericAlerts = 1 <=> textError = "other")

\* C10: once the text call, and any key selection its error handling started,
\* has settled, the text-generation-in-progress flag is clear, whatever the
\* image batch is doing.
C10_ProgressCleared ==
    /\ textTask = "idle" => ~isGeneratingText
    /\ textTask # "idle" => isGeneratingText

\* The flag is clear while all four image calls of the batch are in flight.
C10_Witness ==
    /\ ~isGeneratingText
    /\ batch.cycle = gen
    /\ batch.pending = Cardinality(Platforms)
    /\ \A p \in Platforms : Task(gen, p, 0, "inflight") \in imgTasks

\* The platform default of an "automatic" aspect ratio.
PlatformDefault(platform) ==
    CASE platform = "LINKEDIN" -> "16:9"
      [] platform = "TWITTER" -> "16:9"
      [] platform = "INSTAGRAM" -> "1:1"
      [] platform = "FACEBOOK" -> "4:3"

Resolved(setting, platform) ==
    IF setting = "AUTO" THEN PlatformDefault(platform) ELSE setting

Mapped(x) ==
    CASE x = "2:3" -> "3:4"
      [] x = "3:2" -> "4:3"
      [] x = "21:9" -> "16:9"
      [] x \in {"1:1", "3:4", "4:3", "9:16", "16:9"} -> x
      [] OTHER -> "1:1"

\* C11: for every platform and aspect-ratio setting the ratio sent to the
\* provider is map(resolve(setting, platform)), whatever the resolution tier.
C11_RatioSent ==
    imageConfig # NoImageConfig =>
        imageConfig.aspectRatio
            = Mapped(Resolved(serviceCall.config.aspectRatio, serviceCall.platform))

\* "Automatic" on the Facebook card was sent as 4:3, at the 4K tier.
C11_Witness ==
    /\ serviceCall.platform = "FACEBOOK"
    /\ serviceCall.config.aspectRatio = "AUTO"
    /\ imageConfig.aspectRatio = "4:3"
    /\ imageConfig.imageSize = "4K"

SameIgnoringCase(s, t) ==
    /\ Len(s) = Len(t)
    /\ \A i \in 1..Len(s) : s[i] = t[i] \/ {s[i], t[i]} = {"a", "A"}

\* The list without the element at position i (from 0), order kept.
Without(tags, i) ==
    [j \in 1..(Len(tags) - 1) |-> IF j <= i THEN tags[j] ELSE tags[j + 1]]

\* C12: adding a blank input changes nothing; adding a non-blank one appends
\* it, trimmed and with "#" in front unless it starts with one, at the end of
\* the list unless a tag equal to it ignoring case is present, and then
\* changes nothing; removing index i yields the list without that element.
C12_HashtagEditing ==
    [][/\ AddHashtag =>
             LET tag == IF Head(Trim(hashtagInput)) = "#"
                        THEN Trim(hashtagInput)
                        ELSE <<"#">> \o Trim(hashtagInput)
             IN IF OnlyWhitespace(hashtagInput)
                THEN editableHashtags' = editableHashtags
                ELSE IF \E i \in 1..Len(editableHashtags) :
                            SameIgnoringCase(editableHashtags[i], tag)
                     THEN editableHashtags' = editableHashtags
                     ELSE editableHashtags' = Append(editableHashtags, tag)
       /\ \A i \in 0..(Len(editableHashtags) - 1) :
             RemoveHashtag(i) => editableHashtags' = Without(editableHashtags, i)]_vars

\* "Aa", typed with blanks around it, was added as the last tag after tags
\* that differ from it.
C12_Witness ==
    /\ Len(editableHashtags) = MaxTags
    /\ editableHashtags[MaxTags] = <<"#", "A", "a">>
    /\ editableHashtags[1] = <<"#", "A">>
    /\ hashtagInput = <<>>

\* The entry of t's platform after t's request completed with or without an
\* image, built from the entry as it was just before.
Completed(t, stored) ==
    IF stored
    THEN [results[t.platform] EXCEPT !.imageUrl = ImageUrlOf(t),
                                     !.imageLoading = FALSE]
    ELSE [results[t.platform] EXCEPT !.imageLoading = FALSE]

\* C13: every completion is applied to the latest state: it sets its own
\* platform's entry from that entry's current value and leaves every other
\* platform's entry as it is; so once the requests of the four platforms have
\* completed, in whatever order, each platform holds its own request's outcome.
C13_OrderIndependent ==
    [][/\ \A t \in imgTasks :
             (results # Null /\ TaskStep(t) /\ t.phase = "inflight"
                  /\ t \notin imgTasks'
                  /\ [t EXCEPT !.phase = "awaitKey"] \notin imgTasks') =>
                 /\ \A q \in Platforms \ {t.platform} : results'[q] = results[q]
                 /\ results'[t.platform] = Completed(t, ImageSucceed(t))
       /\ (results' # Null /\ batch'.cycle = gen' /\ batch'.settled
               /\ ~foreignWrite') =>
             \A p \in Platforms :
                 /\ ~results'[p].imageLoading
                 /\ results'[p].imageUrl
                        = IF batch'.outcome[p] = "ok"
                          THEN ImageUrlOf(Task(gen', p, 0, "inflight"))
                          ELSE NoImage
                 /\ results'[p].text = NewResults(gen')[p].text]_vars

\* A batch completed with two images stored and two non-fatal failures.
C13_Witness ==
    /\ results # Null
    /\ batch.cycle = gen
    /\ batch.settled
    /\ ~foreignWrite
    /\ billingAlerts = 0
    /\ batch.outcome["LINKEDIN"] = "ok"
    /\ batch.outcome["FACEBOOK"] = "ok"
    /\ batch.outcome["TWITTER"] = "error"
    /\ batch.outcome["INSTAGRAM"] = "error"

\* C14: every step that issues an image request passes the settings that are
\* current in that step.
C14_CurrentConfig ==
    [][~(IssuedCalls' \subseteq IssuedCalls) =>
          sentConfig' = Config(aspectRatio, imageSize)]_vars

\* The application was locked by a fatal-authorization classification and no
\* key selection has succeeded since.
LockedByFatal == ~hasKey /\ billingAlerts >= 1

\* C15: from the lock by a fatal-authorization classification until a key
\* selection succeeds, no step issues an image call.
C15_NoCallWhileLocked ==
    [][LockedByFatal => IssuedCalls' \subseteq IssuedCalls]_vars

\* A text generation that was in flight when the lock happened succeeded
\* while the application was still locked: its batch issued nothing.
C15_Witness ==
    /\ LockedByFatal
    /\ gen = MaxCycles
    /\ textTask = "idle"
    /\ results # Null
    /\ batch.cycle = gen
    /\ batch.settled
    /\ \A p \in Platforms : batch.outcome[p] = "skipped"

\* The normalized text of the error contains none of the four markers.
NoFatalMarker(error) ==
    \A marker \in {"403", "PERMISSION_DENIED",
                   "The caller does not have permission",
                   "Requested entity was not found"} :
        \A i \in 1..Len(ErrorMessage(error)) : ErrorMessage(error)[i] # marker

\* The classifications that the values of Errors without a marker get.
UnmarkedClasses ==
    {IsPermissionError(error) : error \in {e \in Errors : NoFatalMarker(e)}}

\* A step in which a call that was in flight is rejected or fulfilled.
CallSettles ==
    \/ textTask = "inflight" /\ textTask' # "inflight"
    \/ \E t \in imgTasks : t.phase = "inflight" /\ t \notin imgTasks'

\* C16: handling an error whose normalized text has none of the four markers
\* changes neither the flag nor the locked/authorized state, shows no billing
\* alert and starts no key selection.
C16_NonFatalNoLock ==
    [][CallSettles =>
          \A isPermissionError \in UnmarkedClasses :
              (\/ TextFailAs(isPermissionError)
               \/ \E t \in imgTasks : ImageFailAs(t, isPermissionError)) =>
                  /\ UNCHANGED <<permissionErrorRef, hasKey, billingAlerts,
                                 selectKeyCalls>>
                  /\ AwaitingKey' = AwaitingKey
                  /\ textTask' = "awaitKey" => textTask = "awaitKey"]_vars

\* A text call failed with an unmarked error: generic alert, nothing locked.
C16_Witness ==
    /\ textTask = "idle"
    /\ textError = "other"
    /\ genericAlerts = 1
    /\ billingAlerts = 0
    /\ hasKey
    /\ ~permissionErrorRef
    /\ selectKeyCalls = 0

\* C17: once every text, image and key-selection call has settled, no
\* platform of the live ResultSet is loading.
C17_NoStuckLoading ==
    (textTask = "idle" /\ imgTasks = {} /\ selectKeyCalls = 0 /\ results # Null) =>
        \A p \in Platforms : ~results[p].imageLoading

\* Everything has settled after two generations, a regeneration and a lock.
C17_Witness ==
    /\ textTask = "idle"
    /\ imgTasks = {}
    /\ selectKeyCalls = 0
    /\ results # Null
    /\ gen = MaxCycles
    /\ regens = MaxRegens
    /\ billingAlerts >= 1

\* A step of the failure path of regeneration t.
RegenerateFailureStep(t) ==
    /\ ~IsBatchTask(t)
    /\ ImageFail(t) \/ ImageKeyResolve(t) \/ ImageKeyReject(t)

\* C18: the failure path of regenerateImage(P) changes nothing of the
\* ResultSet except P's image-loading flag, which its last step sets false.
C18_RegenerateFailure ==
    [][\A t \in imgTasks :
          (results # Null /\ RegenerateFailureStep(t)) =>
              results' = IF [t EXCEPT !.phase = "awaitKey"] \in imgTasks'
                         THEN results
                         ELSE [results EXCEPT ![t.platform].imageLoading = FALSE]]_vars

\* The only regeneration has ended, no regenerated image is stored and every
\* platform still shows the image of the batch.
C18_Witness ==
    /\ gen = 1
    /\ regens = 1
    /\ results # Null
    /\ \A t \in imgTasks : IsBatchTask(t)
    /\ \A p \in Platforms :
          /\ ~results[p].imageLoading
          /\ results[p].imageUrl = ImageUrlOf(Task(gen, p, 0, "inflight"))

\* C19: the flag set implies the application locked; the flag is only set in
\* a step that locks, and the application only unlocked in a step that leaves
\* the flag clear.
C19_FlagImpliesLocked ==
    [][/\ permissionErrorRef' => ~hasKey'
       /\ (~permissionErrorRef /\ permissionErrorRef') =>
             (~hasKey' /\ billingAlerts' = billingAlerts + 1)
       /\ (~hasKey /\ hasKey') => ~permissionErrorRef']_vars

\* Locked with the flag set, image calls still in flight and a key selection
\* opened from the lock screen pending.
C19_Witness ==
    /\ permissionErrorRef
    /\ ~hasKey
    /\ selectKeyCalls = 1
    /\ \E t \in imgTasks : t.phase = "inflight"

====
